---------------------------- MODULE Spec2Model ----------------------------
(***************************************************************************)
(* A model of klox (src/src/clock/mod.rs): the clocklet algebra, the glyph *)
(* table, Lifespan, ClockTarget, Clock (grid + target queue), TriggerTime  *)
(* and the `event` handler (frames and key presses).                       *)
(*                                                                         *)
(* Turn values are f64 in the source: binary floating point with a 53-bit  *)
(* significand, every operation rounded to nearest, ties to even.  The     *)
(* model keeps the format and the rounding and shortens the significand to *)
(* MantissaBits bits (the exponent is unbounded: no turn value comes near  *)
(* f64's exponent limits).  A value is the rational <<numerator,           *)
(* denominator>> in lowest terms.                                          *)
(* Durations (std::time::Duration) are integers, in milliseconds.          *)
(***************************************************************************)
EXTENDS Integers, Sequences, FiniteSets, TLC

(***************************************************************************)
(* Bounds of the model.                                                    *)
(***************************************************************************)
\* longest lifespan of a target handed to push_target / clobber_targets
MaxDur == 2
\* the gaps between two frames (update.since_start of successive updates)
FrameGaps == {1, 2}
MaxGap == CHOOSE g \in FrameGaps : \A h \in FrameGaps : h <= g
\* number of targets handed to push_target over a run; clobber_targets may
\* be handed one more, to replace them all
MaxPush == 2
\* latest frame time at which a target is still created
PushHorizon == 2
\* seconds of wall-clock time the event loop is followed for
AppSeconds == 75
\* key presses followed over a run, and the latest frame time (in
\* milliseconds) at which a key is still pressed
MaxKeys == 2
KeyHorizon == 1000
\* largest value handed to Digit::from on its own
MaxDigitValue == 30
\* bits of the floating-point significand (53 in f64)
MantissaBits == 5

(***************************************************************************)
(* Rounded binary arithmetic for the turn values.                          *)
(***************************************************************************)
Abs(n) == IF n < 0 THEN -n ELSE n

RECURSIVE GCD(_, _)
GCD(a, b) == IF b = 0 THEN a ELSE GCD(b, a % b)

\* the rational n/d (d > 0) in lowest terms
Q(n, d) ==
    LET g == GCD(Abs(n), d)
    IN  IF g = 0 THEN <<0, 1>> ELSE <<n \div g, d \div g>>

\* a / d rounded to an integer, ties to even (a >= 0, d > 0)
RoundHalfEven(a, d) ==
    LET q == a \div d
        r == a % d
    IN  IF 2 * r < d \/ (2 * r = d /\ q % 2 = 0) THEN q ELSE q + 1

\* powers of two, and the number of bits of a positive integer
Pow2 == [k \in 0..30 |-> 2 ^ k]
Pow2Set == {Pow2[k] : k \in 0..30}
BitLen(n) == CHOOSE k \in 1..30 : Pow2[k - 1] <= n /\ n < Pow2[k]

\* the floating-point number nearest to the rational x.  With a/d = |x|, the
\* significand m is a/d scaled by a power of two into
\* [2^(MantissaBits-1), 2^MantissaBits) and rounded; s is that scaling, -e.
Fl(x) ==
    IF x[2] \in Pow2Set /\ Abs(x[1]) < Pow2[MantissaBits]
    THEN x
    ELSE LET a  == Abs(x[1])
             d  == x[2]
             s0 == MantissaBits - 1 + BitLen(d) - BitLen(a)
             up(k) == IF k >= 0 THEN a * Pow2[k] ELSE a
             dn(k) == IF k >= 0 THEN d ELSE d * Pow2[0 - k]
             s  == IF up(s0) < Pow2[MantissaBits - 1] * dn(s0) THEN s0 + 1
                   ELSE IF up(s0) >= Pow2[MantissaBits] * dn(s0) THEN s0 - 1
                   ELSE s0
             m  == RoundHalfEven(up(s), dn(s))
             v  == IF s >= 0 THEN Q(m, Pow2[s]) ELSE Q(m * Pow2[0 - s], 1)
         IN  IF x[1] < 0 THEN <<0 - v[1], v[2]>> ELSE v

\* f64 +, -, *, /: the exact result, rounded
QAdd(x, y) == Fl(Q(x[1] * y[2] + y[1] * x[2], x[2] * y[2]))
QSub(x, y) == Fl(Q(x[1] * y[2] - y[1] * x[2], x[2] * y[2]))
QMul(x, y) == Fl(Q(x[1] * y[1], x[2] * y[2]))
QDiv(x, y) == Fl(Q(x[1] * y[2], x[2] * y[1]))
\* Duration::as_secs_f64 of a duration in milliseconds
as_secs_f64(millis) == Fl(Q(millis, 1000))

Cols == 0..7
Rows == 0..2

\* F applied to the value of v: v is computed once, however often F uses it
Bind(v, F(_)) == CHOOSE out \in {F(x) : x \in {v}} : TRUE

(***************************************************************************)
(* Clocklet                                                                *)
(***************************************************************************)
from_turns(hour_hand_turns, minute_hand_turns) ==
    [hour_hand_turns |-> hour_hand_turns, minute_hand_turns |-> minute_hand_turns]

Clocklet_BL    == from_turns(Q(0, 1), Q(1, 4))
Clocklet_BLANK == from_turns(Q(5, 8), Q(5, 8))
Clocklet_BR    == from_turns(Q(0, 1), Q(3, 4))
Clocklet_H     == from_turns(Q(1, 4), Q(3, 4))
Clocklet_L     == from_turns(Q(3, 4), Q(3, 4))
Clocklet_R     == from_turns(Q(1, 4), Q(1, 4))
Clocklet_TL    == from_turns(Q(1, 2), Q(1, 4))
Clocklet_TR    == from_turns(Q(1, 2), Q(3, 4))
Clocklet_V     == from_turns(Q(0, 1), Q(1, 2))
Clocklet_U     == from_turns(Q(0, 1), Q(0, 1))
Clocklet_D     == from_turns(Q(1, 2), Q(1, 2))

\* impl Add for Clocklet
ClockletAdd(a, b) ==
    [hour_hand_turns   |-> QAdd(a.hour_hand_turns, b.hour_hand_turns),
     minute_hand_turns |-> QAdd(a.minute_hand_turns, b.minute_hand_turns)]

\* impl Sub for Clocklet
ClockletSub(a, b) ==
    [hour_hand_turns   |-> QSub(a.hour_hand_turns, b.hour_hand_turns),
     minute_hand_turns |-> QSub(a.minute_hand_turns, b.minute_hand_turns)]

\* impl Mul<f64> for Clocklet
ClockletMul(a, rhs) ==
    [hour_hand_turns   |-> QMul(a.hour_hand_turns, rhs),
     minute_hand_turns |-> QMul(a.minute_hand_turns, rhs)]

\* impl SubAssign<f64> for Clocklet
ClockletSubAssign(a, rhs) ==
    [hour_hand_turns   |-> QSub(a.hour_hand_turns, rhs),
     minute_hand_turns |-> QSub(a.minute_hand_turns, rhs)]

\* Clocklet::default(): two random turn values in [0, 1), each a multiple of
\* 2^-MantissaBits as random_f64() gives multiples of 2^-53.  A grid of 24
\* default clocklets is one of the draws below: draw k gives the cell at
\* (col, row) turn values that differ from cell to cell.
Draws == {0, 1}
Clocklet_default(k, col, row) ==
    LET n == 2 ^ MantissaBits
    IN  from_turns(Q((5 * col + 3 * row + 7 * k + 1) % n, n),
                   Q((11 * col + 13 * row + 5 * k + 2) % n, n))
RandomGrid(k) == [col \in 0..7 |-> [row \in 0..2 |-> Clocklet_default(k, col, row)]]
RandomGrids == {RandomGrid(k) : k \in Draws}

(***************************************************************************)
(* Digit: six clocklets, the cells of two columns in column-major order.   *)
(* Sequences are 1-based: Digit[k + 1] is the source's element k.          *)
(***************************************************************************)
Digit_ZERO  == <<Clocklet_TL, Clocklet_V, Clocklet_BL, Clocklet_TR, Clocklet_V, Clocklet_BR>>
Digit_ONE   == <<Clocklet_BLANK, Clocklet_BLANK, Clocklet_BLANK, Clocklet_D, Clocklet_V, Clocklet_U>>
Digit_TWO   == <<Clocklet_R, Clocklet_TL, Clocklet_BL, Clocklet_TR, Clocklet_BR, Clocklet_L>>
Digit_THREE == <<Clocklet_R, Clocklet_R, Clocklet_R, Clocklet_TR, Clocklet_BR, Clocklet_BR>>
Digit_FOUR  == <<Clocklet_D, Clocklet_BL, Clocklet_BLANK, Clocklet_D, Clocklet_BR, Clocklet_U>>
Digit_FIVE  == <<Clocklet_TL, Clocklet_BL, Clocklet_R, Clocklet_L, Clocklet_TR, Clocklet_BR>>
Digit_SIX   == <<Clocklet_TL, Clocklet_V, Clocklet_BL, Clocklet_L, Clocklet_TR, Clocklet_BR>>
Digit_SEVEN == <<Clocklet_R, Clocklet_BLANK, Clocklet_BLANK, Clocklet_TR, Clocklet_V, Clocklet_U>>
Digit_EIGHT == <<Clocklet_TL, Clocklet_BL, Clocklet_BL, Clocklet_TR, Clocklet_BR, Clocklet_BR>>
Digit_NINE  == <<Clocklet_TL, Clocklet_BL, Clocklet_R, Clocklet_TR, Clocklet_BR, Clocklet_BR>>
Digit_BLANK == <<Clocklet_BLANK, Clocklet_BLANK, Clocklet_BLANK,
                 Clocklet_BLANK, Clocklet_BLANK, Clocklet_BLANK>>

\* the `_ => unreachable!()` arm: a panic, no Digit is returned
Unreachable == <<>>

\* a lookup that accepts 0..9 only and panics on every other value
Digit_from_strict(value) ==
    CASE value = 0 -> Digit_ZERO
      [] value = 1 -> Digit_ONE
      [] value = 2 -> Digit_TWO
      [] value = 3 -> Digit_THREE
      [] value = 4 -> Digit_FOUR
      [] value = 5 -> Digit_FIVE
      [] value = 6 -> Digit_SIX
      [] value = 7 -> Digit_SEVEN
      [] value = 8 -> Digit_EIGHT
      [] value = 9 -> Digit_NINE
      [] OTHER     -> Unreachable

\* impl From<u64> for Digit
Digit_from(value) ==
    CASE value % 10 = 0 -> Digit_ZERO
      [] value % 10 = 1 -> Digit_ONE
      [] value % 10 = 2 -> Digit_TWO
      [] value % 10 = 3 -> Digit_THREE
      [] value % 10 = 4 -> Digit_FOUR
      [] value % 10 = 5 -> Digit_FIVE
      [] value % 10 = 6 -> Digit_SIX
      [] value % 10 = 7 -> Digit_SEVEN
      [] value % 10 = 8 -> Digit_EIGHT
      [] value % 10 = 9 -> Digit_NINE
      [] OTHER          -> Unreachable

(***************************************************************************)
(* Lifespan                                                                *)
(***************************************************************************)
Pending(duration) == [tag |-> "Pending", duration |-> duration]
Active(start, current, deadline) ==
    [tag |-> "Active", start |-> start, current |-> current, deadline |-> deadline]
Finished == [tag |-> "Finished"]

\* Lifespan::from_millis
Lifespan_from_millis(millis) == Pending(millis)

\* Lifespan::update that starts over once the deadline has passed
Lifespan_update_rewind(self, since_start) ==
    IF self.tag = "Pending"
    THEN Active(since_start, since_start, since_start + self.duration)
    ELSE IF self.tag = "Active"
         THEN IF self.deadline < since_start
              THEN Finished
              ELSE [self EXCEPT !.current = since_start]
         ELSE Pending(0)

\* Lifespan::update that pushes the deadline back by each frame's gap
Lifespan_update_slide(self, since_start) ==
    IF self.tag = "Pending"
    THEN Active(since_start, since_start, since_start + self.duration)
    ELSE IF self.tag = "Active"
         THEN IF self.deadline < since_start
              THEN Finished
              ELSE [self EXCEPT !.current = since_start,
                                !.deadline = @ + (since_start - self.current)]
         ELSE self

\* Lifespan::update that never leaves Active
Lifespan_update_stuck(self, since_start) ==
    IF self.tag = "Pending"
    THEN Active(since_start, since_start, since_start + self.duration)
    ELSE IF self.tag = "Active"
         THEN [self EXCEPT !.current = since_start]
         ELSE self

\* Lifespan::update; since_start is update.since_start
Lifespan_update(self, since_start) ==
    IF self.tag = "Pending"
    THEN Active(since_start, since_start, since_start + self.duration)
    ELSE IF self.tag = "Active"
         THEN IF self.deadline < since_start
              THEN Finished
              ELSE [self EXCEPT !.current = since_start]
         ELSE self

\* impl Default for Lifespan
Lifespan_default == Pending(0)

(***************************************************************************)
(* ClockTarget.  Option<T> is a sequence: None is <<>>, Some(x) is <<x>>.   *)
(***************************************************************************)
None == <<>>
Some(x) == <<x>>

\* #[derive(Default)] for ClockTarget, with `grid` the 24 random clocklets drawn
ClockTarget_default(grid) ==
    [clocklets |-> grid, extra_turns |-> None, lifespan |-> Lifespan_default]

\* set_digit with the slot index taken for the column index
set_digit_stride(self, digit, position) ==
    LET pos == position % 4
    IN  [self EXCEPT !.clocklets =
            [col \in Cols |->
                IF col \in {pos, pos + 1}
                THEN [row \in Rows |-> digit[(col - pos) * 3 + row + 1]]
                ELSE self.clocklets[col]]]

\* ClockTarget::set_digit
set_digit(self, digit, position) ==
    LET pos == (position % 4) * 2
    IN  [self EXCEPT !.clocklets =
            [col \in Cols |->
                IF col \in {pos, pos + 1}
                THEN [row \in Rows |-> digit[(col - pos) * 3 + row + 1]]
                ELSE self.clocklets[col]]]

\* from_time with the slots numbered in the order they are filled
from_time_fill_order(me0, time, lifespan) ==
    LET t     == time \div 60
        mins  == t % 60
        hours == (t \div 60) % 24
        m3    == set_digit(me0, Digit_from(mins), 0)
        m2    == set_digit(m3, Digit_from(mins \div 10), 1)
        m1    == set_digit(m2, Digit_from(hours), 2)
        m0    == set_digit(m1, Digit_from(hours \div 10), 3)
    IN  [m0 EXCEPT !.lifespan = lifespan]

\* ClockTarget::from_time; `me0` is Self::default(), `time` is time.as_secs()
from_time(me0, time, lifespan) ==
    LET t     == time \div 60
        mins  == t % 60
        hours == (t \div 60) % 24
        m3    == set_digit(me0, Digit_from(mins), 3)
        m2    == set_digit(m3, Digit_from(mins \div 10), 2)
        m1    == set_digit(m2, Digit_from(hours), 1)
        m0    == set_digit(m1, Digit_from(hours \div 10), 0)
    IN  [m0 EXCEPT !.lifespan = lifespan]

\* progress measured from the start of the run, not of the target
progress_since_zero(self) ==
    CASE self.lifespan.tag = "Finished" -> Q(1, 1)
      [] self.lifespan.tag = "Pending"  -> Q(0, 1)
      [] self.lifespan.tag = "Active"   ->
            LET total == as_secs_f64(self.lifespan.deadline - self.lifespan.start)
            IN  IF total = Q(0, 1)
                THEN Q(1, 1)
                ELSE QDiv(as_secs_f64(self.lifespan.current), total)

\* ClockTarget::progress
progress(self) ==
    CASE self.lifespan.tag = "Finished" -> Q(1, 1)
      [] self.lifespan.tag = "Pending"  -> Q(0, 1)
      [] self.lifespan.tag = "Active"   ->
            LET total == as_secs_f64(self.lifespan.deadline - self.lifespan.start)
            IN  IF total = Q(0, 1)
                THEN Q(1, 1)
                ELSE QDiv(as_secs_f64(self.lifespan.current - self.lifespan.start),
                          total)

\* ClockTarget::random_millis, with `grid` the 24 random clocklets drawn
random_millis(grid, millis) ==
    [clocklets   |-> grid,
     extra_turns |-> Some([col \in Cols |-> [row \in Rows |-> Q(3, 1)]]),
     lifespan    |-> Lifespan_from_millis(millis)]

\* ClockTarget::update with extra_turns cloned instead of taken
ClockTarget_update_keep(self, since_start) ==
    <<[self EXCEPT !.lifespan = Lifespan_update(self.lifespan, since_start)],
      self.extra_turns>>

\* ClockTarget::update: <<updated target, extra turns taken>>
ClockTarget_update(self, since_start) ==
    Bind(self, LAMBDA t :
        <<[t EXCEPT !.lifespan = Lifespan_update(t.lifespan, since_start),
                    !.extra_turns = None],
          t.extra_turns>>)

\* ClockTarget::is_finished
is_finished(self) == self.lifespan.tag = "Finished"

(***************************************************************************)
(* Clock: `clocklets` is the committed grid, `targets` the VecDeque.       *)
(***************************************************************************)
\* Clock::lerp
lerp(clocklets, target) ==
    Bind(<<clocklets, target.clocklets, progress(target)>>, LAMBDA a :
        [col \in Cols |-> [row \in Rows |->
            ClockletAdd(a[1][col][row],
                        ClockletMul(ClockletSub(a[2][col][row], a[1][col][row]),
                                    a[3]))]])

\* Clock::interpolated_clocklets: the grid Clock::draw renders
interpolated_clocklets(clocklets, targets) ==
    IF targets # <<>> THEN lerp(clocklets, Head(targets)) ELSE clocklets

\* Clock::as_target
as_target(clocklets) ==
    [clocklets |-> clocklets, extra_turns |-> None, lifespan |-> Pending(1000)]

\* impl SubAssign<[[f64; 3]; 8]> for Clock
sub_assign(clocklets, rhs) ==
    Bind(<<clocklets, rhs>>, LAMBDA a :
        [col \in Cols |-> [row \in Rows |->
            ClockletSubAssign(a[1][col][row], a[2][col][row])]])

\* push_target with push_front for push_back
push_target_front(targets, target) == <<target>> \o targets
\* push_target that resets the queue as clobber_targets does
push_target_reset(targets, target) == <<target>>

\* Clock::push_target: the queue after the call
push_target(targets, target) == Append(targets, target)

\* clobber_targets that queues the target behind the others
clobber_targets_append(clocklets, targets, target) ==
    <<IF targets # <<>> /\ Head(targets).lifespan.tag = "Active"
      THEN interpolated_clocklets(clocklets, targets)
      ELSE clocklets,
      Append(targets, target)>>

\* clobber_targets without the commit of the interpolated grid
clobber_targets_nocommit(clocklets, targets, target) == <<clocklets, <<target>>>>

\* Clock::clobber_targets: <<committed grid, queue>> after the call
clobber_targets(clocklets, targets, target) ==
    <<IF targets # <<>> /\ Head(targets).lifespan.tag = "Active"
      THEN interpolated_clocklets(clocklets, targets)
      ELSE clocklets,
      <<target>>>>


(***************************************************************************)
(* State.                                                                  *)
(*   clocklets, targets   Clock's committed grid and target queue          *)
(*   since_start          update.since_start of the latest frame           *)
(*   armed, wall          TriggerTime(bool) and the wall clock             *)
(*   debug_digit          Model::debug_digit, the slot of the next edit    *)
(*   me                   a single ClockTarget under construction/advance  *)
(* History (not in the source): every queued target carries the number     *)
(* `id` of the call that created it;                                       *)
(*   nPushed    targets handed to the clock so far                         *)
(*   retired    ids whose grid Clock::update committed, in commit order    *)
(*   evicted    ids clobber_targets dropped from the queue                 *)
(*   decayed    ids whose extra turns Clock::update subtracted, in order   *)
(*   lastPushed the input of the latest target handed to the clock         *)
(*   edits      the calls of target_digit so far: the id of the target     *)
(*              made, the key, the slot, the committed grid and the ids    *)
(*              queued at the moment of the call                           *)
(*   last       the latest operation and what it met                       *)
(***************************************************************************)
VARIABLES clocklets, targets, since_start, armed, wall, debug_digit, me,
          nPushed, retired, evicted, decayed, lastPushed, edits, last

vars == <<clocklets, targets, since_start, armed, wall, debug_digit, me,
          nPushed, retired, evicted, decayed, lastPushed, edits, last>>

clockVars == <<clocklets, targets, since_start>>
historyVars == <<nPushed, retired, evicted, decayed, lastPushed, edits>>

Tagged(target, id) ==
    [id |-> id, clocklets |-> target.clocklets, extra_turns |-> target.extra_turns,
     lifespan |-> target.lifespan]
Untagged(target) ==
    [clocklets |-> target.clocklets, extra_turns |-> target.extra_turns,
     lifespan |-> target.lifespan]
Ids(queue) == {queue[i].id : i \in 1..Len(queue)}
FrontActive(queue) == queue # <<>> /\ Head(queue).lifespan.tag = "Active"

\* the frame time by which every target created up to PushHorizon is retired
MaxNow == PushHorizon + MaxGap + MaxPush * (MaxDur + MaxGap) + 1

\* The targets handed to push_target and clobber_targets, all Pending: input
\* <<"time", d>> is the display of 14:07 without extra turns and with lifespan
\* d, <<"scramble", MaxDur>> a scramble with extra turns and the longest
\* lifespan (scramble_millis is only called with a positive duration).
Inputs == ({"time"} \X (0..MaxDur)) \cup {<<"scramble", MaxDur>>}
InputTarget(i) ==
    IF i[1] = "time"
    THEN from_time(ClockTarget_default(RandomGrid(0)), 14 * 3600 + 7 * 60,
                   Lifespan_from_millis(i[2]))
    ELSE random_millis(RandomGrid(1), i[2])
InputTargets == [i \in Inputs |-> InputTarget(i)]

\* Clock::update with push_back for push_front: the advanced target goes to
\* the back of the queue
RECURSIVE update_loop_back(_, _)
update_loop_back(s0, now) ==
    IF s0.targets = <<>>
    THEN s0
    ELSE LET r       == ClockTarget_update(Untagged(Head(s0.targets)), now)
             id      == Head(s0.targets).id
             updated == Tagged(r[1], id)
             extra   == r[2]
         IN  IF is_finished(updated)
             THEN update_loop_back([s0 EXCEPT !.clocklets = updated.clocklets,
                                              !.targets   = Tail(s0.targets),
                                              !.retired   = Append(@, id)], now)
             ELSE [s0 EXCEPT !.clocklets = IF extra # None
                                           THEN sub_assign(@, extra[1])
                                           ELSE @,
                             !.decayed   = IF extra # None
                                           THEN Append(@, id)
                                           ELSE @,
                             !.targets   = Tail(s0.targets) \o <<updated>>]

\* Clock::update with `break` for `continue`: one target per tick
update_loop_stop(s0, now) ==
    IF s0.targets = <<>>
    THEN s0
    ELSE LET r       == ClockTarget_update(Untagged(Head(s0.targets)), now)
             id      == Head(s0.targets).id
             updated == Tagged(r[1], id)
             extra   == r[2]
         IN  IF is_finished(updated)
             THEN [s0 EXCEPT !.clocklets = updated.clocklets,
                             !.targets   = Tail(s0.targets),
                             !.retired   = Append(@, id)]
             ELSE [s0 EXCEPT !.clocklets = IF extra # None
                                           THEN sub_assign(@, extra[1])
                                           ELSE @,
                             !.decayed   = IF extra # None
                                           THEN Append(@, id)
                                           ELSE @,
                             !.targets   = <<updated>> \o Tail(s0.targets)]

\* Clock::update: the while loop, from the state s0 = [clocklets, targets,
\* retired, decayed] to the state in which it breaks or finds the queue empty
RECURSIVE update_loop(_, _)
update_loop(s0, now) ==
    Bind(s0, LAMBDA s :
        IF s.targets = <<>>
        THEN s
        ELSE Bind(ClockTarget_update(Untagged(Head(s.targets)), now), LAMBDA r :
                LET id      == Head(s.targets).id
                    updated == Tagged(r[1], id)
                    extra   == r[2]
                IN  IF is_finished(updated)
                    THEN update_loop([s EXCEPT !.clocklets = updated.clocklets,
                                               !.targets   = Tail(s.targets),
                                               !.retired   = Append(@, id)], now)
                    ELSE [s EXCEPT !.clocklets = IF extra # None
                                                 THEN sub_assign(@, extra[1])
                                                 ELSE @,
                                   !.decayed   = IF extra # None
                                                 THEN Append(@, id)
                                                 ELSE @,
                                   !.targets   = <<updated>> \o Tail(s.targets)]))

\* Clock::update on the clock <<grid, queue>>, as an action
Clock_update(grid, queue, now) ==
    \E s \in {update_loop([clocklets |-> grid, targets |-> queue,
                           retired |-> retired, decayed |-> decayed], now)} :
        /\ clocklets' = s.clocklets
        /\ targets'   = s.targets
        /\ retired'   = s.retired
        /\ decayed'   = s.decayed

(***************************************************************************)
(* The Clock API driven by a frame loop: Spec.                             *)
(***************************************************************************)
Init ==
    /\ clocklets = RandomGrid(0)          \* impl Default for Clock: one draw
    /\ targets = <<>>
    /\ since_start = 0
    /\ armed = FALSE
    /\ debug_digit = 0
    /\ wall = 0
    /\ me = None
    /\ nPushed = 0
    /\ retired = <<>>
    /\ evicted = {}
    /\ decayed = <<>>
    /\ lastPushed = None
    /\ edits = <<>>
    /\ last = [op |-> "init", active |-> FALSE]

PushTarget(i) ==
    /\ nPushed < MaxPush
    /\ since_start <= PushHorizon
    /\ targets' = push_target(targets, Tagged(InputTargets[i], nPushed + 1))
    /\ nPushed' = nPushed + 1
    /\ lastPushed' = Some(i)
    /\ last' = [op |-> "push_target", active |-> FrontActive(targets)]
    /\ UNCHANGED <<clocklets, since_start, armed, wall, debug_digit, me, retired, evicted, decayed, edits>>

ClobberTargets(i) ==
    /\ nPushed <= MaxPush
    /\ since_start <= PushHorizon
    /\ LET r == clobber_targets(clocklets, targets, Tagged(InputTargets[i], nPushed + 1))
       IN  /\ clocklets' = r[1]
           /\ targets' = r[2]
    /\ nPushed' = nPushed + 1
    /\ evicted' = evicted \cup Ids(targets)
    /\ lastPushed' = Some(i)
    /\ last' = [op |-> "clobber_targets", active |-> FrontActive(targets),
                len |-> Len(targets)]
    /\ UNCHANGED <<since_start, armed, wall, debug_digit, me, retired, decayed, edits>>

Update(dt) ==
    /\ since_start + dt <= MaxNow
    /\ since_start' = since_start + dt
    /\ Clock_update(clocklets, targets, since_start + dt)
    /\ last' = [op |-> "update", active |-> FrontActive(targets),
                popped |-> Len(retired') - Len(retired)]
    /\ UNCHANGED <<armed, wall, debug_digit, me, nPushed, evicted, lastPushed, edits>>

Push == \E i \in Inputs : PushTarget(i)
Clobber == \E i \in Inputs : ClobberTargets(i)
Tick == \E dt \in FrameGaps : Update(dt)

Next == Push \/ Clobber \/ Tick

Spec == Init /\ [][Next]_vars


\* The host's frame loop never stops: it keeps delivering Update events with
\* a later since_start.  Frame is what the host does to the frame clock; the
\* steps of Next that advance since_start are exactly the Tick steps, and
\* Frame is enabled exactly when Tick is.
Frame == \E dt \in FrameGaps : since_start + dt <= MaxNow /\ since_start' = since_start + dt
LiveSpec == Spec /\ WF_since_start(Frame)

(***************************************************************************)
(* TriggerTime and `event` (Event::Update and the key presses): AppSpec.   *)
(* `wall` is SystemTime::now() since UNIX_EPOCH in milliseconds, so that   *)
(* now.as_secs() is wall \div 1000; the frame clock since_start runs in    *)
(* milliseconds at the same rate.  `me` is the latest target that          *)
(* trigger() returned, as returned.                                        *)
(***************************************************************************)
LEAD_TIME_SECONDS == 5
TRIGGER_TIME_SECONDS == 60 - LEAD_TIME_SECONDS

\* TriggerTime::trigger that fires on the level, not on the edge
TriggerTime_trigger_level(self, now, grid) ==
    LET seconds == (now \div 1000) % 60
    IN  IF seconds >= TRIGGER_TIME_SECONDS
        THEN <<TRUE, Some(from_time(ClockTarget_default(grid),
                                    (now \div 1000) + LEAD_TIME_SECONDS,
                                    Lifespan_from_millis(LEAD_TIME_SECONDS * 1000)))>>
        ELSE <<FALSE, None>>

\* TriggerTime::trigger without the lead: the target shows the time of the poll
TriggerTime_trigger_nolead(self, now, grid) ==
    LET seconds == (now \div 1000) % 60
    IN  IF self /\ seconds < TRIGGER_TIME_SECONDS
        THEN <<FALSE, None>>
        ELSE IF ~self /\ seconds >= TRIGGER_TIME_SECONDS
             THEN <<TRUE, Some(from_time(ClockTarget_default(grid),
                                         now \div 1000,
                                         Lifespan_from_millis(LEAD_TIME_SECONDS * 1000)))>>
             ELSE <<self, None>>

\* TriggerTime::trigger: <<self.0 after the call, the Option returned>>; `self`
\* is self.0, `now` the wall clock read, `grid` the random clocklets that
\* Self::default() draws inside from_time
TriggerTime_trigger(self, now, grid) ==
    LET seconds == (now \div 1000) % 60
    IN  IF self /\ seconds < TRIGGER_TIME_SECONDS
        THEN <<FALSE, None>>
        ELSE IF ~self /\ seconds >= TRIGGER_TIME_SECONDS
             THEN <<TRUE, Some(from_time(ClockTarget_default(grid),
                                         (now \div 1000) + LEAD_TIME_SECONDS,
                                         Lifespan_from_millis(LEAD_TIME_SECONDS * 1000)))>>
             ELSE <<self, None>>

\* the run starts at 14:06:50 or at 23:59:50 wall-clock time
WallStarts == {(14 * 3600 + 6 * 60 + 50) * 1000, (23 * 3600 + 59 * 60 + 50) * 1000}
\* the time between two events, in milliseconds
AppGaps == {500, 1000, 4000, 7000}

AppInit ==
    /\ clocklets = RandomGrid(0)          \* impl Default for Clock: one draw
    /\ targets = <<>>
    /\ since_start = 0
    /\ armed = FALSE                      \* #[derive(Default)] TriggerTime
    /\ debug_digit = 0                    \* Model::new
    /\ wall \in WallStarts
    /\ me = None
    /\ nPushed = 0
    /\ retired = <<>>
    /\ evicted = {}
    /\ decayed = <<>>
    /\ lastPushed = None
    /\ edits = <<>>
    /\ last = [op |-> "init", active |-> FALSE]

\* event(): Event::Update(update), `gap` milliseconds after the previous event
EventUpdate(gap) ==
    /\ since_start + gap <= AppSeconds * 1000
    /\ since_start' = since_start + gap
    /\ wall' = wall + gap
    /\ \E r \in {TriggerTime_trigger(armed, wall + gap, RandomGrid(1))} :
        /\ armed' = r[1]
        /\ IF r[2] # None
           THEN \E c \in {clobber_targets(clocklets, targets,
                                          Tagged(r[2][1], nPushed + 1))} :
                    /\ Clock_update(c[1], c[2], since_start + gap)
                    /\ nPushed' = nPushed + 1
                    /\ evicted' = evicted \cup Ids(targets)
                    /\ lastPushed' = Some(<<"trigger", wall + gap>>)
                    /\ me' = r[2][1]
           ELSE /\ Clock_update(clocklets, targets, since_start + gap)
                /\ UNCHANGED <<nPushed, evicted, lastPushed, me>>
    /\ last' = [op |-> "event_update", active |-> FrontActive(targets)]
    /\ UNCHANGED <<debug_digit, edits>>

\* target_digit that edits the grid of the latest queued target, if any
target_digit_latest(grid, digit, position) ==
    set_digit(as_target(IF targets # <<>>
                        THEN targets[Len(targets)].clocklets
                        ELSE grid),
              digit, position)

\* Clock::target_digit: the target it hands to push_target
target_digit(grid, digit, position) == set_digit(as_target(grid), digit, position)

\* the digit keys followed, with the glyph each one edits in
DigitKeys == {"Key1", "Space"}
KeyGlyph(key) ==
    CASE key = "Key1"  -> Digit_ONE
      [] key = "Space" -> Digit_BLANK

\* event(): KeyPressed(Key0..Key9 | Space), between two frames
EventKeyDigit(key) ==
    /\ nPushed < MaxKeys
    /\ since_start <= KeyHorizon
    /\ targets' = push_target(targets,
                      Tagged(target_digit(clocklets, KeyGlyph(key), debug_digit),
                             nPushed + 1))
    /\ debug_digit' = (debug_digit + 1) % 4
    /\ nPushed' = nPushed + 1
    /\ lastPushed' = Some(<<"key", key>>)
    /\ edits' = Append(edits, [id |-> nPushed + 1, key |-> key, slot |-> debug_digit,
                               grid |-> clocklets, queued |-> Ids(targets)])
    /\ last' = [op |-> "target_digit", active |-> FrontActive(targets),
                slot |-> debug_digit]
    /\ UNCHANGED <<clocklets, since_start, armed, wall, me, retired, evicted, decayed>>

\* Model::scramble_millis: the queue after the call; `grid` is the random
\* clocklets that random_millis draws
scramble_millis(queue, grid, millis, id) ==
    push_target(queue, Tagged(random_millis(grid, millis), id))

\* event(): KeyPressed(Key::R), between two frames
EventKeyR ==
    /\ nPushed < MaxKeys
    /\ since_start <= KeyHorizon
    /\ targets' = scramble_millis(targets, RandomGrid(1), 3000, nPushed + 1)
    /\ nPushed' = nPushed + 1
    /\ lastPushed' = Some(<<"key", "R">>)
    /\ last' = [op |-> "scramble", active |-> FrontActive(targets)]
    /\ UNCHANGED <<clocklets, since_start, armed, wall, debug_digit, me,
                   retired, evicted, decayed, edits>>

AppFrame == \E gap \in AppGaps : EventUpdate(gap)
AppKeyDigit == \E key \in DigitKeys : EventKeyDigit(key)

AppNext == AppFrame \/ AppKeyDigit \/ EventKeyR

AppSpec == AppInit /\ [][AppNext]_vars

(***************************************************************************)
(* Building one ClockTarget: DigitSpec.                                    *)
(* A constructor makes `me`, then set_digit edits it once.  last records   *)
(* the call: its time for from_time, its glyph (0..9, 10 for Digit::BLANK) *)
(* and position for set_digit.                                             *)
(***************************************************************************)
Glyph(g) == IF g = 10 THEN Digit_BLANK ELSE Digit_from(g)
Glyphs == 0..10
Positions == 0..7
TimeInputs ==
    {h * 3600 + 7 * 60 : h \in 0..23}
    \cup {14 * 3600 + m * 60 + 59 : m \in 0..59}
    \cup {3 * 86400 + 23 * 3600 + 59 * 60 + 59}

DigitInit ==
    /\ me = None
    /\ last = [op |-> "init", active |-> FALSE]
    /\ clocklets = RandomGrid(0)
    /\ targets = <<>>
    /\ since_start = 0
    /\ armed = FALSE
    /\ debug_digit = 0
    /\ wall = 0
    /\ nPushed = 0
    /\ retired = <<>>
    /\ evicted = {}
    /\ decayed = <<>>
    /\ lastPushed = None
    /\ edits = <<>>

digitFrame == <<clocklets, targets, since_start, armed, wall, debug_digit, historyVars>>

FromTime(time, millis) ==
    /\ me = None
    /\ last.op = "init"
    /\ me' = from_time(ClockTarget_default(RandomGrid(0)), time,
                       Lifespan_from_millis(millis))
    /\ last' = [op |-> "from_time", active |-> FALSE, time |-> time]
    /\ UNCHANGED digitFrame

RandomMillis(millis) ==
    /\ me = None
    /\ last.op = "init"
    /\ me' = random_millis(RandomGrid(1), millis)
    /\ last' = [op |-> "random_millis", active |-> FALSE]
    /\ UNCHANGED digitFrame

SetDigit(g, position) ==
    /\ me # None
    /\ last.op # "set_digit"
    /\ me' = set_digit(me, Glyph(g), position)
    /\ last' = [op |-> "set_digit", active |-> FALSE, digit |-> g,
                position |-> position]
    /\ UNCHANGED digitFrame

\* Digit::from(value) on its own: last.digit is what the call gives
DigitFrom(value) ==
    /\ me = None
    /\ last.op = "init"
    /\ last' = [op |-> "digit_from", active |-> FALSE, value |-> value,
                digit |-> Digit_from(value)]
    /\ UNCHANGED <<me, digitFrame>>

DigitValues == 0..MaxDigitValue

DigitNext ==
    \/ \E value \in DigitValues : DigitFrom(value)
    \/ \E time \in TimeInputs, millis \in {0, 5000} : FromTime(time, millis)
    \/ \E millis \in {3000} : RandomMillis(millis)
    \/ \E g \in Glyphs, position \in Positions : SetDigit(g, position)

DigitSpec == DigitInit /\ [][DigitNext]_vars

(***************************************************************************)
(* RectUtils::grid (src/src/lib.rs): GridSpec.                             *)
(* A Rect is [x |-> [start, end], y |-> [start, end]] as in nannou, its    *)
(* coordinates floating-point numbers of the model's format.  last records *)
(* the call: the rectangle's l, t, w, h as l_t_w_h() returns them, the     *)
(* const parameters C and R, and the cells returned.                       *)
(***************************************************************************)
QLess(x, y) == x[1] * y[2] < y[1] * x[2]

\* Rect::from_corner_points([ax, ay], [bx, by])
from_corner_points(a, b) ==
    [x |-> IF QLess(a[1], b[1]) THEN [start |-> a[1], end |-> b[1]]
                                ELSE [start |-> b[1], end |-> a[1]],
     y |-> IF QLess(a[2], b[2]) THEN [start |-> a[2], end |-> b[2]]
                                ELSE [start |-> b[2], end |-> a[2]]]

\* RectUtils::grid for Rect, on the rectangle with l_t_w_h() = (l, t, w, h)
Rect_grid(l, t, w, h, C, R) ==
    LET col_width  == QDiv(w, Q(C, 1))
        row_height == QDiv(h, Q(R, 1))
    IN  [c \in 0..(C - 1) |-> [r \in 0..(R - 1) |->
            from_corner_points(
                <<QAdd(l, QMul(Q(c, 1), col_width)),
                  QSub(t, QMul(Q(r, 1), row_height))>>,
                <<QAdd(l, QMul(QAdd(Q(c, 1), Q(1, 1)), col_width)),
                  QSub(t, QMul(QAdd(Q(r, 1), Q(1, 1)), row_height))>>)]]

\* the rectangles split: left and top edges, widths and heights
RectLefts   == {Fl(Q(0 - 40, 1)), Fl(Q(0, 1)), Fl(Q(3, 8))}
RectTops    == {Fl(Q(15, 1)), Fl(Q(0, 1)), Fl(Q(5, 2))}
RectWidths  == {Fl(Q(80, 1)), Fl(Q(1, 1)), Fl(Q(10, 1)), Fl(Q(7, 8))}
RectHeights == {Fl(Q(30, 1)), Fl(Q(1, 1)), Fl(Q(3, 4)), Fl(Q(10, 1))}
\* the const parameters <<C, R>>: Clock::draw's 8 x 3, the doc test's 4 x 3
GridShapes  == {<<8, 3>>, <<4, 3>>, <<3, 2>>}

GridInit ==
    /\ last = [op |-> "init", active |-> FALSE]
    /\ me = None
    /\ clocklets = RandomGrid(0)
    /\ targets = <<>>
    /\ since_start = 0
    /\ armed = FALSE
    /\ debug_digit = 0
    /\ wall = 0
    /\ nPushed = 0
    /\ retired = <<>>
    /\ evicted = {}
    /\ decayed = <<>>
    /\ lastPushed = None
    /\ edits = <<>>

Grid(l, t, w, h, shape) ==
    /\ last.op = "init"
    /\ last' = [op |-> "grid", active |-> FALSE, l |-> l, t |-> t, w |-> w,
                h |-> h, C |-> shape[1], R |-> shape[2],
                cells |-> Rect_grid(l, t, w, h, shape[1], shape[2])]
    /\ UNCHANGED <<me, clocklets, targets, since_start, armed, wall, debug_digit, historyVars>>

GridNext ==
    \E l \in RectLefts, t \in RectTops, w \in RectWidths, h \in RectHeights,
       shape \in GridShapes : Grid(l, t, w, h, shape)

GridSpec == GridInit /\ [][GridNext]_vars

(***************************************************************************)
(* One ClockTarget advanced by ClockTarget::update: LifeSpec.              *)
(* `me` is the target; last records its creation and its advances: d the   *)
(* lifespan it was created with, n the number of advances so far (3 stands *)
(* for three or more), first the time of the first advance, taken the      *)
(* extra turns the latest advance returned.                                *)
(***************************************************************************)
AdvanceGaps == {0} \cup FrameGaps

LifeInit ==
    /\ \E i \in Inputs :
            /\ me = InputTargets[i]
            /\ last = [op |-> "create", active |-> FALSE, n |-> 0, d |-> i[2],
                       first |-> 0, taken |-> None]
    /\ since_start = 0
    /\ clocklets = RandomGrid(0)
    /\ targets = <<>>
    /\ armed = FALSE
    /\ debug_digit = 0
    /\ wall = 0
    /\ nPushed = 0
    /\ retired = <<>>
    /\ evicted = {}
    /\ decayed = <<>>
    /\ lastPushed = None
    /\ edits = <<>>

Advance(dt) ==
    /\ since_start + dt <= MaxNow
    /\ since_start' = since_start + dt
    /\ \E r \in {ClockTarget_update(me, since_start + dt)} :
            /\ me' = r[1]
            /\ last' = [op     |-> "advance",
                        active |-> me.lifespan.tag = "Active",
                        n      |-> IF last.n < 3 THEN last.n + 1 ELSE 3,
                        d      |-> last.d,
                        first  |-> IF last.n = 0 THEN since_start + dt ELSE last.first,
                        taken  |-> r[2]]
    /\ UNCHANGED <<clocklets, targets, armed, wall, debug_digit, historyVars>>

LifeNext == \E dt \in AdvanceGaps : Advance(dt)

LifeSpec == LifeInit /\ [][LifeNext]_vars

(***************************************************************************)
(* Properties of the Clock API (Spec, LiveSpec).                           *)
(***************************************************************************)
InputGrid(i) == InputTargets[i].clocklets

\* C1: as long as clobber_targets has evicted nothing, the targets committed
\* by Clock::update are exactly the first pushed ones in push order, and the
\* queue holds the remaining ones in push order: none overtakes an earlier one.
FifoRetirement ==
    evicted = {} =>
        /\ \A k \in 1..Len(retired) : retired[k] = k
        /\ \A k \in 1..Len(targets) : targets[k].id = Len(retired) + k
        /\ Len(retired) + Len(targets) = nPushed

\* two targets pushed and both committed by ticks, in push order
FifoRetirementWitness ==
    /\ evicted = {}
    /\ retired = <<1, 2>>
    /\ last.op = "update"

\* C2: with frames arriving forever, the queue ends up empty for good, and
\* whenever it is empty after a push the committed grid is the grid of the
\* target pushed last.
EventualDrain ==
    /\ <>[](targets = <<>>)
    /\ [](targets = <<>> /\ lastPushed # None => clocklets = InputGrid(lastPushed[1]))

\* both targets were handed over, the queue has drained and shows the last one
EventualDrainWitness ==
    /\ targets = <<>>
    /\ nPushed = MaxPush
    /\ Len(retired) >= 1
    /\ clocklets = InputGrid(lastPushed[1])
    /\ last.op = "update"

(***************************************************************************)
(* Properties of a single target (LifeSpec).                               *)
(***************************************************************************)
\* C3: a target created with lifespan d, advanced once at time `first` and
\* then advanced with now = first + d, reports progress 1.0 and is finished.
AdvanceToDeadlineFinishes ==
    (last.op = "advance" /\ last.n = 2 /\ since_start = last.first + last.d)
        => (progress(me) = Q(1, 1) /\ is_finished(me))

(***************************************************************************)
(* More properties of the Clock API (Spec).                                *)
(***************************************************************************)
\* C4: a zero-length target at the front of the queue is retired by the
\* first tick that advances it: no tick leaves a zero-length target Active
\* in the queue.
ZeroLengthRetiredOnFirstTick ==
    ~ /\ FrontActive(targets)
      /\ Head(targets).lifespan.deadline = Head(targets).lifespan.start

\* C5: clobber_targets called while the front target is Active commits the
\* grid that was rendered right before the call, and the grid rendered right
\* after the call is that same grid.
ClobberContinuity ==
    [][(last'.op = "clobber_targets" /\ FrontActive(targets)) =>
            /\ clocklets' = interpolated_clocklets(clocklets, targets)
            /\ interpolated_clocklets(clocklets', targets')
                    = interpolated_clocklets(clocklets, targets)]_vars

\* a clobber met an Active front target half way, so the committed grid is
\* now an interpolated one, neither the initial grid nor a target's
ClobberContinuityWitness ==
    /\ last.op = "clobber_targets"
    /\ last.active
    /\ clocklets # RandomGrid(0)
    /\ \A i \in Inputs : clocklets # InputGrid(i)

\* C6: push_target leaves the committed grid and every queued target as they
\* are and appends the new target at the back; a target leaves the queue only
\* when Clock::update retires it as finished or clobber_targets evicts it.
PushTargetFrame ==
    [][/\ last'.op = "push_target" =>
            /\ clocklets' = clocklets
            /\ Len(targets') = Len(targets) + 1
            /\ SubSeq(targets', 1, Len(targets)) = targets
            /\ Untagged(targets'[Len(targets')]) = InputTarget(lastPushed'[1])
       /\ \A id \in Ids(targets) \ Ids(targets') :
            \/ last'.op = "clobber_targets"
            \/ /\ last'.op = "update"
               /\ \E k \in (Len(retired) + 1)..Len(retired') : retired'[k] = id]_vars

\* a target was pushed behind a target that is in flight
PushTargetFrameWitness ==
    /\ last = [op |-> "push_target", active |-> TRUE]
    /\ Len(targets) = 2
    /\ Head(targets).lifespan.tag = "Active"
    /\ targets[2].lifespan.tag = "Pending"

\* C7: the extra turns of a target are returned by its first advance only:
\* every target that has been advanced holds none, and no target's extra
\* turns are subtracted from the committed grid more than once.
ExtraTurnsOneShot ==
    /\ \A k \in 1..Len(targets) :
            targets[k].lifespan.tag # "Pending" => targets[k].extra_turns = None
    /\ \A j, k \in 1..Len(decayed) : decayed[j] = decayed[k] => j = k

\* a scramble has been advanced twice: its extra turns were subtracted once
ExtraTurnsOneShotWitness ==
    /\ FrontActive(targets)
    /\ Head(targets).lifespan.current > Head(targets).lifespan.start
    /\ \E k \in 1..Len(decayed) : decayed[k] = Head(targets).id
    /\ last.op = "update"

\* C12: whenever a target is at the front of the queue, lerp of the committed
\* grid and that target is the committed grid, cell by cell and hand by hand,
\* if the target's progress is 0.0, and the target's grid if its progress is
\* 1.0.
LerpEndpoints ==
    targets # <<>> =>
        /\ progress(Head(targets)) = Q(0, 1)
                => lerp(clocklets, Head(targets)) = clocklets
        /\ progress(Head(targets)) = Q(1, 1)
                => lerp(clocklets, Head(targets)) = Head(targets).clocklets

\* C15: after clobber_targets(t) the queue is exactly <<t>>, with t as it was
\* handed over (Pending, its extra turns in place), whatever the queue held;
\* if the front was not Active the committed grid is as before the call.
ClobberLeavesOnlyTarget ==
    [][last'.op = "clobber_targets" =>
        /\ Len(targets') = 1
        /\ targets'[1].id = nPushed'
        /\ Untagged(targets'[1]) = InputTarget(lastPushed'[1])
        /\ targets'[1].lifespan.tag = "Pending"
        /\ ~FrontActive(targets) => clocklets' = clocklets]_vars

\* a scramble replaced two queued targets whose front was still Pending
ClobberLeavesOnlyTargetWitness ==
    /\ last.op = "clobber_targets"
    /\ last.len = 2
    /\ ~last.active
    /\ Len(targets) = 1
    /\ Head(targets).extra_turns # None
    /\ clocklets = RandomGrid(0)

\* C14: a tick pops the targets that finish from the front, in order, and
\* commits the grid of the last one popped (less the extra turns of the new
\* front, if that one hands them over in this tick); it ends with the queue
\* empty or with a front that is Active, advanced to this tick's time, and
\* holds no Finished target.
HeadNeverBlocks ==
    [][last'.op = "update" =>
        LET n == Len(retired') - Len(retired)
        IN  /\ n >= 0 /\ n <= Len(targets)
            /\ \A k \in 1..n : retired'[Len(retired) + k] = targets[k].id
            /\ Len(targets') = Len(targets) - n
            /\ \A k \in 1..Len(targets') : targets'[k].id = targets[n + k].id
            /\ n > 0 =>
                    clocklets' = IF Len(targets) > n /\ targets[n + 1].extra_turns # None
                                 THEN sub_assign(targets[n].clocklets,
                                                 targets[n + 1].extra_turns[1])
                                 ELSE targets[n].clocklets
            /\ \/ targets' = <<>>
               \/ /\ Head(targets').lifespan.tag = "Active"
                  /\ Head(targets').lifespan.current = since_start'
            /\ \A k \in 1..Len(targets') : ~is_finished(targets'[k])]_vars

\* one tick retired the head, which was past its deadline, and went on to
\* start the target behind it
HeadNeverBlocksWitness ==
    /\ last.op = "update"
    /\ last.popped = 1
    /\ FrontActive(targets)
    /\ Head(targets).lifespan.start = since_start

(***************************************************************************)
(* Properties of RectUtils::grid (GridSpec).                               *)
(***************************************************************************)
\* base + sign * k * span / n as an exact rational
Along(base, sign, k, span, n) ==
    Q(base[1] * span[2] * n + sign * k * span[1] * base[2], base[2] * span[2] * n)

\* C13: grid on the rectangle with left l, top t, width w and height h gives C
\* columns of R cells, and cell [c][r] spans from l + c*w/C to l + (c+1)*w/C
\* and from t - r*h/R down to t - (r+1)*h/R: the cells tile the rectangle.
GridTiles ==
    last.op = "grid" =>
        /\ DOMAIN last.cells = 0..(last.C - 1)
        /\ \A c \in 0..(last.C - 1) :
            /\ DOMAIN last.cells[c] = 0..(last.R - 1)
            /\ \A r \in 0..(last.R - 1) :
                /\ last.cells[c][r].x.start = Along(last.l, 1, c, last.w, last.C)
                /\ last.cells[c][r].x.end = Along(last.l, 1, c + 1, last.w, last.C)
                /\ last.cells[c][r].y.end = Along(last.t, 0 - 1, r, last.h, last.R)
                /\ last.cells[c][r].y.start = Along(last.t, 0 - 1, r + 1, last.h, last.R)

(***************************************************************************)
(* Properties of TriggerTime (AppSpec).                                    *)
(***************************************************************************)
\* C8: a poll emits a target exactly when armed is false and the second of
\* the minute is at least 55, and that poll sets armed; a poll with armed set
\* and the second below 55 clears armed and emits nothing; every other poll
\* leaves armed as it is.  (A poll that emits hands one target to the clock.)
TriggerEdge ==
    [][last'.op = "event_update" =>
        LET seconds == (wall' \div 1000) % 60
            emitted == nPushed' = nPushed + 1
        IN  /\ emitted \/ nPushed' = nPushed
            /\ emitted <=> (~armed /\ seconds >= 55)
            /\ emitted => armed'
            /\ (armed /\ seconds < 55) => ~armed'
            /\ (armed /\ seconds >= 55) => armed'
            /\ (~armed /\ seconds < 55) => ~armed']_vars

\* one emission at 14:06:55 or later, and a poll at second 2 of the next
\* minute has re-armed the trigger without emitting
TriggerEdgeWitness ==
    /\ last.op = "event_update"
    /\ (wall \div 1000) % 60 = 2
    /\ nPushed = 1
    /\ ~armed

(***************************************************************************)
(* Properties of from_time and set_digit (DigitSpec).                      *)
(***************************************************************************)
\* the six cells of slot k (columns 2k and 2k + 1), read column by column
Slot(grid, k) ==
    <<grid[2 * k][0], grid[2 * k][1], grid[2 * k][2],
      grid[2 * k + 1][0], grid[2 * k + 1][1], grid[2 * k + 1][2]>>
GlyphTable ==
    <<Digit_ZERO, Digit_ONE, Digit_TWO, Digit_THREE, Digit_FOUR,
      Digit_FIVE, Digit_SIX, Digit_SEVEN, Digit_EIGHT, Digit_NINE>>
Shows(grid, k, digit) == Slot(grid, k) = GlyphTable[digit + 1]

\* C11 as stated: Digit::from of a value outside 0..9 fails and returns no
\* glyph.
GlyphLookupRejectsOutOfRange ==
    (last.op = "digit_from" /\ last.value > 9) => last.digit = Unreachable

\* C11: Digit::from never fails: for every value it returns the glyph of the
\* value's ones digit (value mod 10), so 0..9 give their own glyph.
GlyphLookupOnesDigit ==
    last.op = "digit_from" =>
        /\ last.digit # Unreachable
        /\ last.digit = GlyphTable[(last.value % 10) + 1]

\* the lookup of 14 gave the glyph of 4
GlyphLookupOnesDigitWitness ==
    /\ last.op = "digit_from"
    /\ last.value = 14
    /\ last.digit = Digit_FOUR

\* C9: from_time of s seconds shows hour = (s / 3600) mod 24 and minute =
\* (s / 60) mod 60 as hour tens, hour ones, minute tens, minute ones in slots
\* 0, 1, 2, 3.
TimeToDigits ==
    last.op = "from_time" =>
        LET minute == (last.time \div 60) % 60
            hour   == (last.time \div 3600) % 24
        IN  /\ Shows(me.clocklets, 0, hour \div 10)
            /\ Shows(me.clocklets, 1, hour % 10)
            /\ Shows(me.clocklets, 2, minute \div 10)
            /\ Shows(me.clocklets, 3, minute % 10)

\* 14:07 is shown as 1, 4, 0, 7
TimeToDigitsWitness ==
    /\ last.op = "from_time"
    /\ last.time = 14 * 3600 + 7 * 60 + 59
    /\ Slot(me.clocklets, 0) = Digit_ONE
    /\ Slot(me.clocklets, 1) = Digit_FOUR
    /\ Slot(me.clocklets, 2) = Digit_ZERO
    /\ Slot(me.clocklets, 3) = Digit_SEVEN

\* C10: set_digit(glyph, s) leaves every column other than (s mod 4) * 2 and
\* (s mod 4) * 2 + 1, the extra turns and the lifespan as they were.
SetDigitFrame ==
    [][last'.op = "set_digit" =>
        LET pos == (last'.position % 4) * 2
        IN  /\ \A col \in Cols \ {pos, pos + 1} : me'.clocklets[col] = me.clocklets[col]
            /\ me'.extra_turns = me.extra_turns
            /\ me'.lifespan = me.lifespan]_vars

\* the blank glyph was set at slot index 6, i.e. in columns 4 and 5 of a
\* scramble target, which keeps its extra turns
SetDigitFrameWitness ==
    /\ last.op = "set_digit"
    /\ last.position = 6
    /\ last.digit = 10
    /\ Slot(me.clocklets, 2) = Digit_BLANK
    /\ Slot(me.clocklets, 3) # Digit_BLANK
    /\ me.extra_turns # None

(***************************************************************************)
(* More properties of TriggerTime (AppSpec).                               *)
(***************************************************************************)
\* C16: the target a poll at wall-clock time now emits shows the hour and
\* minute of now + 5 s, is Pending with a lifespan of 5000 ms and has no extra
\* turns; its minute is the one after the minute of the poll.  It is the one
\* target in the queue, which the same event starts: it is due 5000 ms later.
EmittedTargetShowsLeadTime ==
    [][(last'.op = "event_update" /\ nPushed' = nPushed + 1) =>
        LET now    == wall' \div 1000
            hour   == ((now + 5) \div 3600) % 24
            minute == ((now + 5) \div 60) % 60
        IN  /\ Shows(me'.clocklets, 0, hour \div 10)
            /\ Shows(me'.clocklets, 1, hour % 10)
            /\ Shows(me'.clocklets, 2, minute \div 10)
            /\ Shows(me'.clocklets, 3, minute % 10)
            /\ minute = ((now \div 60) + 1) % 60
            /\ me'.lifespan = Pending(5000)
            /\ me'.extra_turns = None
            /\ Len(targets') = 1
            /\ Head(targets').clocklets = me'.clocklets
            /\ Head(targets').lifespan.tag = "Active"
            /\ Head(targets').lifespan.deadline = since_start' + 5000]_vars

\* a poll between 23:59:55 and 23:59:59 has emitted the target showing 00:00
EmittedTargetShowsLeadTimeWitness ==
    /\ last.op = "event_update"
    /\ nPushed = 1
    /\ me # None
    /\ me.lifespan = Pending(5000)
    /\ \A k \in 0..3 : Slot(me.clocklets, k) = Digit_ZERO
    /\ targets # <<>>
    /\ Head(targets).clocklets = me.clocklets

(***************************************************************************)
(* More properties of a single target (LifeSpec).                          *)
(***************************************************************************)
\* Pending, Active, Finished in the order a lifespan goes through them
Stage(lifespan) ==
    CASE lifespan.tag = "Pending"  -> 0
      [] lifespan.tag = "Active"   -> 1
      [] lifespan.tag = "Finished" -> 2

\* C17: an advance never moves a lifespan back: Pending becomes Active,
\* Active stays Active or becomes Finished, Finished stays Finished.
LifespanMovesForward ==
    [][last'.op = "advance" =>
        /\ Stage(me'.lifespan) >= Stage(me.lifespan)
        /\ Stage(me'.lifespan) <= Stage(me.lifespan) + 1
        /\ Stage(me.lifespan) = 0 => Stage(me'.lifespan) = 1
        /\ Stage(me.lifespan) = 2 => me'.lifespan = Finished]_vars

\* a Finished target was advanced again and is still Finished
LifespanMovesForwardWitness ==
    /\ last.op = "advance"
    /\ last.n = 3
    /\ ~last.active
    /\ is_finished(me)

\* C18: the first advance of a Pending(d) lifespan at time now gives Active
\* with start = current = now and deadline = now + d; an advance from Active
\* to Active moves current to now and leaves start and deadline as they are.
DeadlineResolvedOnce ==
    [][last'.op = "advance" =>
        /\ me.lifespan.tag = "Pending" =>
                me'.lifespan = Active(since_start', since_start',
                                      since_start' + me.lifespan.duration)
        /\ (me.lifespan.tag = "Active" /\ me'.lifespan.tag = "Active") =>
                /\ me'.lifespan.start = me.lifespan.start
                /\ me'.lifespan.deadline = me.lifespan.deadline
                /\ me'.lifespan.current = since_start'
        /\ me'.lifespan.tag = "Active" =>
                /\ me'.lifespan.start = last'.first
                /\ me'.lifespan.deadline = last'.first + last'.d]_vars

\* a target first advanced late, at time 2 or after, was advanced again after
\* a gap and still has the deadline of its first advance
DeadlineResolvedOnceWitness ==
    /\ last.op = "advance"
    /\ last.active
    /\ last.first >= 2
    /\ last.d >= 1
    /\ me.lifespan.tag = "Active"
    /\ me.lifespan.current > me.lifespan.start
    /\ me.lifespan.deadline = last.first + last.d


(***************************************************************************)
(* The queue as `event` drives it (AppSpec).                               *)
(***************************************************************************)
\* C19: at most one target is in flight.  In every state that target_digit,
\* scramble (both through push_target), clobber_targets and Clock::update
\* reach, no queued target is Finished, and every target behind the front is
\* Pending and has not had its extra turns taken: Clock::update has not
\* subtracted them, and a scramble still carries its three turns per cell.
OneTargetInFlight ==
    \A k \in 1..Len(targets) :
        /\ targets[k].lifespan.tag # "Finished"
        /\ k > 1 =>
            /\ targets[k].lifespan.tag = "Pending"
            /\ \A j \in 1..Len(decayed) : decayed[j] # targets[k].id
            /\ targets[k].clocklets = RandomGrid(1) =>
                    Untagged(targets[k]) = random_millis(RandomGrid(1), 3000)

\* a frame has advanced a queue of two: the front is Active and a scramble
\* waits behind it with its extra turns
OneTargetInFlightWitness ==
    /\ last.op = "event_update"
    /\ Len(targets) = 2
    /\ targets[1].lifespan.tag = "Active"
    /\ targets[1].lifespan.current > targets[1].lifespan.start
    /\ targets[2].lifespan.tag = "Pending"
    /\ targets[2].extra_turns # None


(***************************************************************************)
(* Progress of the queued targets (Spec).                                  *)
(***************************************************************************)
\* x <= y on turn values and progress values
QLeq(x, y) == ~QLess(y, x)

\* the progress p is the quotient elapsed / total up to the rounding of the
\* two conversions to seconds and of the division (a relative error of at
\* most four units in the last place of the significand)
NearQuotient(p, elapsed, total) ==
    Abs(p[1] * total - elapsed * p[2]) * 2 ^ (MantissaBits - 2) <= elapsed * p[2]

\* C20: progress is defined and within [0, 1].  After every step, for every
\* queued target: progress is 0 while the target is Pending; an Active target
\* has start <= current <= deadline; its progress is 1 when its duration is
\* zero, and otherwise the quotient (current - start) / (deadline - start),
\* which is 0 at the start and 1 at the deadline; and the progress of a target
\* is never below what it was before the step.
ProgressWithinUnitInterval ==
    [][\A k \in 1..Len(targets') :
        LET t  == Untagged(targets'[k])
            ls == t.lifespan
            p  == progress(t)
        IN  /\ QLeq(Q(0, 1), p) /\ QLeq(p, Q(1, 1))
            /\ ls.tag = "Pending" => p = Q(0, 1)
            /\ ls.tag = "Active" =>
                    /\ ls.start <= ls.current /\ ls.current <= ls.deadline
                    /\ ls.deadline = ls.start => p = Q(1, 1)
                    /\ ls.deadline > ls.start =>
                            /\ NearQuotient(p, ls.current - ls.start, ls.deadline - ls.start)
                            /\ ls.current = ls.start => p = Q(0, 1)
                            /\ ls.current = ls.deadline => p = Q(1, 1)
            /\ \A j \in 1..Len(targets) :
                    targets[j].id = targets'[k].id =>
                        QLeq(progress(Untagged(targets[j])), p)]_vars

\* a frame has started a target of zero duration: it is Active with its
\* deadline at its start, and its progress is 1
ProgressWithinUnitIntervalWitness ==
    /\ last.op = "update"
    /\ targets # <<>>
    /\ Head(targets).lifespan.tag = "Active"
    /\ Head(targets).lifespan.deadline = Head(targets).lifespan.start
    /\ progress(Untagged(Head(targets))) = Q(1, 1)


(***************************************************************************)
(* Digit edits (AppSpec).                                                  *)
(***************************************************************************)
\* C21: a digit edit is a snapshot of the committed grid at call time.
\* A call of target_digit with glyph g while debug_digit is s leaves the
\* committed grid as it is and appends one target: Pending with 1000 ms,
\* without extra turns, showing g in slot s and the committed grid's cells
\* in the three other slots.  And when the queue has drained after two edits
\* of different slots, the second issued while the first was still queued
\* and the second the last target committed, the committed grid shows the
\* second glyph in its slot and, in the slot of the first edit, what the
\* committed grid showed there when the second edit was made, which is what
\* it showed before the first edit unless the grid was committed to in
\* between: the first edit does not persist.
DigitEditIsSnapshot ==
    [][/\ last'.op = "target_digit" =>
            LET e == edits'[Len(edits')]
                t == targets'[Len(targets')]
            IN  /\ clocklets' = clocklets
                /\ Len(targets') = Len(targets) + 1
                /\ \A k \in 1..Len(targets) : targets'[k] = targets[k]
                /\ t.lifespan = Pending(1000)
                /\ t.extra_turns = None
                /\ e.slot = debug_digit
                /\ Slot(t.clocklets, e.slot) = KeyGlyph(e.key)
                /\ \A k \in 0..3 :
                        k # e.slot => Slot(t.clocklets, k) = Slot(clocklets, k)
       /\ (/\ targets' = <<>>
           /\ Len(edits') >= 2
           /\ retired' # <<>>) =>
            LET e1 == edits'[Len(edits') - 1]
                e2 == edits'[Len(edits')]
            IN  (/\ e1.slot # e2.slot
                 /\ e1.id \in e2.queued
                 /\ retired'[Len(retired')] = e2.id) =>
                    /\ Slot(clocklets', e2.slot) = KeyGlyph(e2.key)
                    /\ Slot(clocklets', e1.slot) = Slot(e2.grid, e1.slot)
                    /\ e2.grid = e1.grid =>
                            Slot(clocklets', e1.slot) = Slot(e1.grid, e1.slot)]_vars

\* two edits, of slots 0 and 1, the second made while the first was queued;
\* the queue has drained, and slot 0 shows neither glyph: the first edit,
\* with a glyph the grid did not show before, is lost
DigitEditIsSnapshotWitness ==
    /\ last.op = "event_update"
    /\ targets = <<>>
    /\ Len(edits) = 2
    /\ edits[1].id \in edits[2].queued
    /\ retired # <<>> /\ retired[Len(retired)] = edits[2].id
    /\ edits[1].key # edits[2].key
    /\ Slot(clocklets, edits[2].slot) = KeyGlyph(edits[2].key)
    /\ Slot(clocklets, edits[1].slot) # KeyGlyph(edits[1].key)
    /\ Slot(clocklets, edits[1].slot) = Slot(edits[1].grid, edits[1].slot)


(***************************************************************************)
(* The start of a scramble (Spec).                                         *)
(***************************************************************************)
\* the turn values x and y point the same way: they differ by whole turns
SameDirection(x, y) == (x[1] * y[2] - y[1] * x[2]) % (x[2] * y[2]) = 0

\* C22: starting a scramble causes no visible jump.  When a tick first
\* advances a scramble of non-zero duration waiting at the front, it stays at
\* the front with its grid unchanged, the committed grid is the one before
\* the tick with the extra turns (3.0) subtracted from both hands of every
\* cell, and every hand of the rendered grid points after the tick the way
\* it pointed before the tick (the same turn value modulo 1).
ScrambleStartNoJump ==
    [][(/\ last'.op = "update"
        /\ targets # <<>>
        /\ Head(targets).lifespan.tag = "Pending"
        /\ Head(targets).lifespan.duration > 0
        /\ Head(targets).extra_turns # None) =>
            /\ targets' # <<>>
            /\ Head(targets').id = Head(targets).id
            /\ Head(targets').clocklets = Head(targets).clocklets
            /\ \A col \in Cols, row \in Rows :
                    /\ Head(targets).extra_turns[1][col][row] = Q(3, 1)
                    /\ clocklets'[col][row] =
                            ClockletSubAssign(clocklets[col][row], Q(3, 1))
                    /\ LET before == interpolated_clocklets(clocklets, targets)[col][row]
                           after  == interpolated_clocklets(clocklets', targets')[col][row]
                       IN  /\ SameDirection(after.hour_hand_turns,
                                            before.hour_hand_turns)
                           /\ SameDirection(after.minute_hand_turns,
                                            before.minute_hand_turns)]_vars

=============================================================================
